---------------------------- MODULE Spec2Model ----------------------------
(***************************************************************************)
(* Model of the emergency-department reporting application                 *)
(* (src/app.py, src/models.py): the EmergencyRecord store, the Hospital    *)
(* catalog and the request handlers that read and write them.              *)
(*                                                                         *)
(* One request is handled from start to end by one action; the response   *)
(* it produces is held in resp until Deliver hands it to the client.      *)
(* Strings of the request are sequences of one-character strings, so that  *)
(* strip() and int() are computed on them as Python computes them.         *)
(***************************************************************************)
EXTENDS Integers, Sequences, FiniteSets, TLC

VARIABLES
    records,    \* table emergency_records: id -> row
    nextId,     \* AUTO_INCREMENT of emergency_records.id
    hospitals,  \* table hospitals: id (1..Len) -> [nombre, activo]
    users,      \* table users: id -> [username, password, hospital, is_admin]
    nextUserId, \* AUTO_INCREMENT of users.id
    resp,       \* the response of the request just handled, or NoResp
    workers     \* the requests that server workers handle at the same time

vars == <<records, nextId, hospitals, users, nextUserId, resp, workers>>

-----------------------------------------------------------------------------
(* Bounds of the model *)

MaxRecId == 2       \* ids the record table hands out
MaxDate == 2        \* distinct calendar days
MaxHospitals == 2   \* rows of the hospital catalog
MaxUserId == 3      \* ids the user table hands out
MaxDashRecs == 6    \* rows of the stores the dashboard is asked about
MaxWorkers == 2     \* requests handled at the same time

-----------------------------------------------------------------------------
(* Strings *)

None == <<"None">>                       \* Python's None: no character string
Whitespace == {" ", "\t", "\n", "\r"}
Digits == <<"0", "1", "2", "3", "4", "5", "6", "7", "8", "9">>

RECURSIVE LStrip(_)
LStrip(s) == IF s # <<>> /\ Head(s) \in Whitespace THEN LStrip(Tail(s)) ELSE s

RECURSIVE RStrip(_)
RStrip(s) ==
    IF s # <<>> /\ s[Len(s)] \in Whitespace
    THEN RStrip(SubSeq(s, 1, Len(s) - 1))
    ELSE s

\* str.strip()
Strip(s) == RStrip(LStrip(s))

\* (x or '')
OrEmpty(v) == IF v = None THEN <<>> ELSE v

\* bool(x) of an optional string
Truthy(v) == v # None /\ v # <<>>

IsDigit(c) == \E i \in 1..Len(Digits) : Digits[i] = c
DigitVal(c) == (CHOOSE i \in 1..Len(Digits) : Digits[i] = c) - 1

RECURSIVE DigitsVal(_)
DigitsVal(s) ==
    IF s = <<>> THEN 0
    ELSE 10 * DigitsVal(SubSeq(s, 1, Len(s) - 1)) + DigitVal(s[Len(s)])

AllDigits(s) == s # <<>> /\ \A i \in 1..Len(s) : IsDigit(s[i])

\* int(s): surrounding whitespace ignored, an optional sign, decimal digits;
\* anything else raises ValueError (ok = FALSE)
PyInt(s) ==
    LET t == Strip(s)
        signed == t # <<>> /\ Head(t) \in {"+", "-"}
        body == IF signed THEN Tail(t) ELSE t
    IN  IF AllDigits(body)
        THEN [ok |-> TRUE,
              val |-> IF signed /\ Head(t) = "-" THEN 0 - DigitsVal(body)
                      ELSE DigitsVal(body)]
        ELSE [ok |-> FALSE, val |-> 0]

Max(a, b) == IF a >= b THEN a ELSE b

-----------------------------------------------------------------------------
(* Dates *)

Dates == 1..MaxDate

\* date.isoformat(): day d of the model is 2024-01-0d
IsoFormat(d) == <<"2", "0", "2", "4", "-", "0", "1", "-", "0", Digits[d + 1]>>

\* dateutil.parser.parse(s).date(); ok = FALSE when it raises
ParseDate(s) ==
    IF \E d \in Dates : IsoFormat(d) = Strip(s)
    THEN [ok |-> TRUE, val |-> CHOOSE d \in Dates : IsoFormat(d) = Strip(s)]
    ELSE [ok |-> FALSE, val |-> 0]

-----------------------------------------------------------------------------
(* Tables *)

HospA == <<"A">>
HospB == <<"B">>

Anonymous == 0      \* current_user of a request without a session

\* The five integer columns of EmergencyRecord
CounterFields == {"atenciones", "ingresos", "alta_voluntario", "traslados",
                  "defunciones"}

\* current_user.is_authenticated
IsAuthenticated(a) == a \in DOMAIN users

\* current_user.is_admin
IsAdmin(a) == users[a].is_admin

\* Hospital.query.filter_by(nombre=nombre, activo=True).first() is not None
HospitalActivo(hosps, nombre) ==
    \E h \in 1..Len(hosps) : hosps[h].nombre = nombre /\ hosps[h].activo

\* Hospital.query.filter_by(nombre=nombre).first() is not None: the lookup
\* has no activo filter
HospitalExisteActiveOnly(hosps, nombre) ==
    \E h \in 1..Len(hosps) : hosps[h].nombre = nombre /\ hosps[h].activo

HospitalExiste(hosps, nombre) ==
    \E h \in 1..Len(hosps) : hosps[h].nombre = nombre

\* inject_choices: the active hospitals offered for selection
inject_choices == {h \in 1..Len(hospitals) : hospitals[h].activo}

-----------------------------------------------------------------------------
(* Responses *)

NoResp == [op |-> "none", actor |-> Anonymous, req |-> <<>>,
           status |-> "none", out |-> <<>>]

Idle == resp.op = "none"

Response(op, a, req, status, out) ==
    [op |-> op, actor |-> a, req |-> req, status |-> status, out |-> out]

\* The client receives the response: the request is complete.
Deliver ==
    /\ ~Idle
    /\ resp' = NoResp
    /\ UNCHANGED <<records, nextId, hospitals, users, nextUserId, workers>>

-----------------------------------------------------------------------------
(* Registros: crear *)

\* nuevo: existente = EmergencyRecord.query.filter_by(fecha, hospital).first()
NuevoExistenteUnchecked(recs, fecha, hospital) == {}

NuevoExistente(recs, fecha, hospital) ==
    {i \in DOMAIN recs : recs[i].fecha = fecha /\ recs[i].hospital = hospital}

\* nuevo.to_int(name)
NuevoToIntUnclamped(form, name) ==
    LET raw == IF form[name] = None THEN <<"0">> ELSE form[name]
        n == PyInt(Strip(raw))
    IN  IF n.ok THEN n.val ELSE 0

NuevoToInt(form, name) ==
    LET raw == IF form[name] = None THEN <<"0">> ELSE form[name]
        n == PyInt(Strip(raw))
    IN  IF n.ok THEN Max(n.val, 0) ELSE 0

\* nuevo: the hospital of the new record, by role
NuevoHospital(a, form) ==
    IF IsAdmin(a) THEN Strip(OrEmpty(form["hospital"])) ELSE users[a].hospital

\* EmergencyRecord(...) of nuevo
NuevoRec(id, fecha, hospital, form) ==
    [id |-> id, fecha |-> fecha, hospital |-> hospital,
     atenciones |-> NuevoToInt(form, "atenciones"),
     ingresos |-> NuevoToInt(form, "ingresos"),
     alta_voluntario |-> NuevoToInt(form, "alta_voluntario"),
     traslados |-> NuevoToInt(form, "traslados"),
     defunciones |-> NuevoToInt(form, "defunciones"),
     motivo_traslado |-> Strip(OrEmpty(form["motivo_traslado"])),
     hospital_referencia |-> Strip(OrEmpty(form["hospital_referencia"])),
     eventualidades |-> Strip(OrEmpty(form["eventualidades"]))]

\* POST /nuevo by an authenticated user, today being the day `today`:
\* the status of the response, the record it names and the table afterwards
NuevoPost(a, form, today) ==
    LET fecha_str == form["fecha"]
        parsed == IF Truthy(fecha_str) THEN ParseDate(fecha_str)
                  ELSE [ok |-> TRUE, val |-> today]
        fecha == parsed.val
        hospital == NuevoHospital(a, form)
        existente == NuevoExistente(records, fecha, hospital)
        fail(st) == [status |-> st, rec |-> 0, recs |-> records]
    IN  IF ~parsed.ok THEN fail("error")
        ELSE IF IsAdmin(a) /\ ~HospitalActivo(hospitals, hospital)
        THEN fail("invalid_hospital")
        ELSE IF existente # {}
        THEN [status |-> "duplicate",
              rec |-> CHOOSE i \in existente : \A j \in existente : i <= j,
              recs |-> records]
        ELSE [status |-> "saved", rec |-> nextId,
              recs |-> records @@
                       (nextId :> NuevoRec(nextId, fecha, hospital, form))]

nuevo(a, method, form, today) ==
    LET req == [method |-> method, form |-> form, today |-> today]
    IN  /\ Idle
        /\ IF ~IsAuthenticated(a)
           THEN /\ resp' = Response("nuevo", a, req, "login", 0)
                /\ UNCHANGED <<records, nextId>>
           ELSE IF method = "GET"
           THEN /\ resp' = Response("nuevo", a, req, "form", 0)
                /\ UNCHANGED <<records, nextId>>
           ELSE LET r == NuevoPost(a, form, today)
                IN  /\ r.status = "saved" => nextId <= MaxRecId
                    /\ records' = r.recs
                    /\ nextId' = IF r.status = "saved" THEN nextId + 1 ELSE nextId
                    /\ resp' = Response("nuevo", a, req, r.status, r.rec)
        /\ UNCHANGED <<hospitals, users, nextUserId, workers>>

-----------------------------------------------------------------------------
(* Registros: crear, by workers that run at the same time *)

\* Each worker handles one request at a time in its own database session.
\* A POST /nuevo is two round trips to the database: the SELECT of existente,
\* and the INSERT that db.session.commit() sends.
Workers == 1..MaxWorkers

NoFecha == 0     \* a worker that holds no record to insert

IdleWorker == [pc |-> "idle", actor |-> Anonymous, form |-> <<>>,
               fecha |-> NoFecha, hospital |-> <<>>, status |-> "none"]

\* db.session.add(rec); db.session.commit(): the table has the primary key
\* and a plain index on (fecha, hospital), no unique constraint
InsertRowUnique(recs, id, rec) ==
    IF \E i \in DOMAIN recs : recs[i].fecha = rec.fecha /\ recs[i].hospital = rec.hospital
    THEN recs
    ELSE recs @@ (id :> rec)

InsertRow(recs, id, rec) == recs @@ (id :> rec)

\* nuevo up to the existence check: the worker returns if the form is
\* refused or a record exists, and goes on to the insert otherwise
nuevo_check(w, a, method, form, today) ==
    LET r == NuevoPost(a, form, today)
        done(st) == workers' = [workers EXCEPT ![w] =
                        [pc |-> "done", actor |-> a, form |-> form,
                         fecha |-> NoFecha, hospital |-> <<>>, status |-> st]]
    IN  /\ workers[w].pc = "idle"
        /\ IF ~IsAuthenticated(a) THEN done("login")
           ELSE IF method = "GET" THEN done("form")
           ELSE IF r.status # "saved" THEN done(r.status)
           ELSE workers' = [workers EXCEPT ![w] =
                    [pc |-> "insert", actor |-> a, form |-> form,
                     fecha |-> r.recs[r.rec].fecha,
                     hospital |-> r.recs[r.rec].hospital, status |-> "none"]]
        /\ UNCHANGED <<records, nextId, hospitals, users, nextUserId, resp>>

\* nuevo from to_int to the commit
nuevo_insert(w) ==
    /\ workers[w].pc = "insert"
    /\ nextId <= MaxRecId
    /\ records' = InsertRow(records, nextId,
                            NuevoRec(nextId, workers[w].fecha,
                                     workers[w].hospital, workers[w].form))
    /\ nextId' = nextId + 1
    /\ workers' = [workers EXCEPT ![w].pc = "done", ![w].status = "saved"]
    /\ UNCHANGED <<hospitals, users, nextUserId, resp>>

\* the worker sends its response and is free for the next request
nuevo_return(w) ==
    /\ workers[w].pc = "done"
    /\ workers' = [workers EXCEPT ![w] = IdleWorker]
    /\ UNCHANGED <<records, nextId, hospitals, users, nextUserId, resp>>

-----------------------------------------------------------------------------
(* Registros: editar *)

\* editar: non-admin users may only edit records of their own hospital
EditarProhibidoInverted(a, rec) ==
    ~IsAdmin(a) /\ rec.hospital = users[a].hospital

EditarProhibido(a, rec) == ~IsAdmin(a) /\ rec.hospital # users[a].hospital

\* editar: duplicado = another record with the new fecha and hospital
EditarDuplicadoOldHospital(recs, rec_id, fecha, hospital) ==
    {i \in DOMAIN recs :
        /\ i # rec_id
        /\ recs[i].fecha = fecha
        /\ recs[i].hospital = recs[rec_id].hospital}

EditarDuplicado(recs, rec_id, fecha, hospital) ==
    {i \in DOMAIN recs :
        i # rec_id /\ recs[i].fecha = fecha /\ recs[i].hospital = hospital}

\* editar.to_int(name, current)
EditarToIntZero(form, name, current) ==
    LET val == form[name]
        n == PyInt(val)
    IN  IF val = None \/ val = <<>> THEN 0
        ELSE IF n.ok THEN Max(n.val, 0) ELSE 0

EditarToIntNeg(form, name, current) ==
    LET val == form[name]
        n == PyInt(val)
    IN  IF val = None \/ val = <<>> THEN current
        ELSE IF n.ok THEN n.val ELSE current

EditarToInt(form, name, current) ==
    LET val == form[name]
        n == PyInt(val)
    IN  IF val = None \/ val = <<>> THEN current
        ELSE IF n.ok THEN Max(n.val, 0) ELSE current

\* editar: the hospital of the edited record, by role
EditarHospitalFromForm(a, rec, form) ==
    Strip(IF Truthy(form["hospital"]) THEN form["hospital"] ELSE rec.hospital)

EditarHospital(a, rec, form) ==
    IF IsAdmin(a)
    THEN Strip(IF Truthy(form["hospital"]) THEN form["hospital"] ELSE rec.hospital)
    ELSE users[a].hospital

\* the assignments of editar to rec
EditarRec(rec, fecha, hospital, form) ==
    [id |-> rec.id, fecha |-> fecha, hospital |-> hospital,
     atenciones |-> EditarToInt(form, "atenciones", rec.atenciones),
     ingresos |-> EditarToInt(form, "ingresos", rec.ingresos),
     alta_voluntario |-> EditarToInt(form, "alta_voluntario", rec.alta_voluntario),
     traslados |-> EditarToInt(form, "traslados", rec.traslados),
     defunciones |-> EditarToInt(form, "defunciones", rec.defunciones),
     motivo_traslado |-> Strip(OrEmpty(form["motivo_traslado"])),
     hospital_referencia |-> Strip(OrEmpty(form["hospital_referencia"])),
     eventualidades |-> Strip(OrEmpty(form["eventualidades"]))]

\* POST /editar/<rec_id> by a user allowed to edit the record:
\* the status of the response and the table afterwards
EditarPost(a, rec_id, form) ==
    LET rec == records[rec_id]
        fecha_str == form["fecha"]
        parsed == IF Truthy(fecha_str) THEN ParseDate(fecha_str)
                  ELSE [ok |-> TRUE, val |-> rec.fecha]
        nueva_fecha == parsed.val
        nuevo_hospital == EditarHospital(a, rec, form)
        duplicado == EditarDuplicado(records, rec_id, nueva_fecha, nuevo_hospital)
        fail(st) == [status |-> st, recs |-> records]
    IN  IF ~parsed.ok THEN fail("error")
        ELSE IF IsAdmin(a) /\ ~HospitalActivo(hospitals, nuevo_hospital)
        THEN fail("invalid_hospital")
        ELSE IF duplicado # {} THEN fail("duplicate")
        ELSE [status |-> "updated",
              recs |-> [records EXCEPT
                          ![rec_id] = EditarRec(rec, nueva_fecha, nuevo_hospital, form)]]

editar(a, method, rec_id, form) ==
    LET req == [method |-> method, rec_id |-> rec_id, form |-> form]
        reply(st) == /\ resp' = Response("editar", a, req, st, rec_id)
                     /\ UNCHANGED records
    IN  /\ Idle
        /\ IF ~IsAuthenticated(a) THEN reply("login")
           ELSE IF rec_id \notin DOMAIN records THEN reply("not_found")
           ELSE IF EditarProhibido(a, records[rec_id]) THEN reply("forbidden")
           ELSE IF method = "GET" THEN reply("form")
           ELSE LET r == EditarPost(a, rec_id, form)
                IN  /\ records' = r.recs
                    /\ resp' = Response("editar", a, req, r.status, rec_id)
        /\ UNCHANGED <<nextId, hospitals, users, nextUserId, workers>>

-----------------------------------------------------------------------------
(* Registros: eliminar *)

\* admin_required: the wrapped handler runs only for an authenticated admin
admin_requiredAnyUser(a) == IsAuthenticated(a)

admin_required(a) == IsAuthenticated(a) /\ IsAdmin(a)

\* db.session.delete(rec)
EliminarRec(recs, rec_id) == [i \in DOMAIN recs \ {rec_id} |-> recs[i]]

eliminar(a, rec_id) ==
    LET req == [method |-> "POST", rec_id |-> rec_id]
        reply(st) == /\ resp' = Response("eliminar", a, req, st, rec_id)
                     /\ UNCHANGED records
    IN  /\ Idle
        /\ IF ~IsAuthenticated(a) THEN reply("login")
           ELSE IF ~admin_required(a) THEN reply("admin_only")
           ELSE IF rec_id \notin DOMAIN records THEN reply("not_found")
           ELSE /\ records' = EliminarRec(records, rec_id)
                /\ resp' = Response("eliminar", a, req, "deleted", rec_id)
        /\ UNCHANGED <<nextId, hospitals, users, nextUserId, workers>>

-----------------------------------------------------------------------------
(* CRUD Hospitales (Admin) *)

\* (request.form.get('nombre') or '').strip()
HospitalNombre(form) == Strip(OrEmpty(form["nombre"]))

hospitales_nuevo(a, method, form) ==
    LET req == [method |-> method, form |-> form]
        nombre == HospitalNombre(form)
        reply(st) == /\ resp' = Response("hospitales_nuevo", a, req, st, 0)
                     /\ UNCHANGED hospitals
    IN  /\ Idle
        /\ IF ~IsAuthenticated(a) THEN reply("login")
           ELSE IF ~admin_required(a) THEN reply("admin_only")
           ELSE IF method = "GET" THEN reply("form")
           ELSE IF nombre = <<>> THEN reply("name_required")
           ELSE IF HospitalExiste(hospitals, nombre) THEN reply("duplicate_name")
           ELSE /\ Len(hospitals) < MaxHospitals
                /\ hospitals' = Append(hospitals, [nombre |-> nombre, activo |-> TRUE])
                /\ resp' = Response("hospitales_nuevo", a, req, "created",
                                    Len(hospitals) + 1)
        /\ UNCHANGED <<records, nextId, users, nextUserId, workers>>

\* hospitales_editar: existe = another hospital row with that name
HospitalOtroExiste(hosps, h_id, nombre) ==
    \E h \in 1..Len(hosps) : h # h_id /\ hosps[h].nombre = nombre

hospitales_editar(a, method, h_id, form) ==
    LET req == [method |-> method, h_id |-> h_id, form |-> form]
        nombre == HospitalNombre(form)
        activo == form["activo"] = <<"o", "n">>
        reply(st) == /\ resp' = Response("hospitales_editar", a, req, st, h_id)
                     /\ UNCHANGED hospitals
    IN  /\ Idle
        /\ IF ~IsAuthenticated(a) THEN reply("login")
           ELSE IF ~admin_required(a) THEN reply("admin_only")
           ELSE IF h_id \notin 1..Len(hospitals) THEN reply("not_found")
           ELSE IF method = "GET" THEN reply("form")
           ELSE IF nombre = <<>> THEN reply("name_required")
           ELSE IF HospitalOtroExiste(hospitals, h_id, nombre)
           THEN reply("duplicate_name")
           ELSE /\ hospitals' = [hospitals EXCEPT
                                   ![h_id] = [nombre |-> nombre, activo |-> activo]]
                /\ resp' = Response("hospitales_editar", a, req, "updated", h_id)
        /\ UNCHANGED <<records, nextId, users, nextUserId, workers>>

\* hospitales_eliminar: soft delete, h.activo = False
DesactivarNoOp(hosps, h_id) == hosps

DesactivarRemove(hosps, h_id) ==
    SubSeq(hosps, 1, h_id - 1) \o SubSeq(hosps, h_id + 1, Len(hosps))

Desactivar(hosps, h_id) == [hosps EXCEPT ![h_id].activo = FALSE]

hospitales_eliminar(a, h_id) ==
    LET req == [method |-> "POST", h_id |-> h_id]
        reply(st) == /\ resp' = Response("hospitales_eliminar", a, req, st, h_id)
                     /\ UNCHANGED hospitals
    IN  /\ Idle
        /\ IF ~IsAuthenticated(a) THEN reply("login")
           ELSE IF ~admin_required(a) THEN reply("admin_only")
           ELSE IF h_id \notin 1..Len(hospitals) THEN reply("not_found")
           ELSE /\ hospitals' = Desactivar(hospitals, h_id)
                /\ resp' = Response("hospitales_eliminar", a, req, "deactivated", h_id)
        /\ UNCHANGED <<records, nextId, users, nextUserId, workers>>

-----------------------------------------------------------------------------
(* Gestion de Usuarios (solo Admin) *)

\* the text fields of the user form, and its checkbox
UserUsername(form) == Strip(OrEmpty(form["username"]))
UserHospital(form) == Strip(OrEmpty(form["hospital"]))
UserPassword1(form) == OrEmpty(form["password1"])
UserPassword2(form) == OrEmpty(form["password2"])
UserIsAdmin(form) == form["is_admin"] = <<"o", "n">>

\* hospital or None
OrNone(s) == IF s = <<>> THEN None ELSE s

\* User.query.filter_by(username=username).first() is not None
UsernameExiste(us, username) ==
    \E u \in DOMAIN us : us[u].username = username

\* User.query.filter(User.id != u.id, User.username == username).first()
UsernameOtroExiste(us, u_id, username) ==
    \E u \in DOMAIN us : u # u_id /\ us[u].username = username

\* the password column holds a hash; the model keeps the password that
\* check_password accepts
usuarios_nuevo(a, method, form) ==
    LET req == [method |-> method, form |-> form]
        username == UserUsername(form)
        hospital == UserHospital(form)
        reply(st) == /\ resp' = Response("usuarios_nuevo", a, req, st, 0)
                     /\ UNCHANGED <<users, nextUserId>>
    IN  /\ Idle
        /\ IF ~IsAuthenticated(a) THEN reply("login")
           ELSE IF ~admin_required(a) THEN reply("admin_only")
           ELSE IF method = "GET" THEN reply("form")
           ELSE IF username = <<>> THEN reply("username_required")
           ELSE IF UsernameExiste(users, username) THEN reply("duplicate_username")
           ELSE IF UserPassword1(form) = <<>> THEN reply("password_required")
           ELSE IF UserPassword1(form) # UserPassword2(form)
           THEN reply("password_mismatch")
           ELSE IF hospital # <<>> /\ ~HospitalActivo(hospitals, hospital)
           THEN reply("invalid_hospital")
           ELSE /\ nextUserId <= MaxUserId
                /\ users' = users @@ (nextUserId :>
                                [username |-> username,
                                 password |-> UserPassword1(form),
                                 hospital |-> OrNone(hospital),
                                 is_admin |-> UserIsAdmin(form)])
                /\ nextUserId' = nextUserId + 1
                /\ resp' = Response("usuarios_nuevo", a, req, "created", nextUserId)
        /\ UNCHANGED <<records, nextId, hospitals, workers>>

\* usuarios_editar: the row is assigned before the passwords are compared,
\* and a return before db.session.commit() leaves the table as it was
usuarios_editar(a, method, u_id, form) ==
    LET req == [method |-> method, u_id |-> u_id, form |-> form]
        username == UserUsername(form)
        hospital == UserHospital(form)
        password1 == UserPassword1(form)
        password2 == UserPassword2(form)
        reply(st) == /\ resp' = Response("usuarios_editar", a, req, st, u_id)
                     /\ UNCHANGED users
    IN  /\ Idle
        /\ IF ~IsAuthenticated(a) THEN reply("login")
           ELSE IF ~admin_required(a) THEN reply("admin_only")
           ELSE IF u_id \notin DOMAIN users THEN reply("not_found")
           ELSE IF method = "GET" THEN reply("form")
           ELSE IF username = <<>> THEN reply("username_required")
           ELSE IF UsernameOtroExiste(users, u_id, username)
           THEN reply("duplicate_username")
           ELSE IF hospital # <<>> /\ ~HospitalActivo(hospitals, hospital)
           THEN reply("invalid_hospital")
           ELSE IF (password1 # <<>> \/ password2 # <<>>) /\ password1 # password2
           THEN reply("password_mismatch")
           ELSE /\ users' = [users EXCEPT ![u_id] =
                                [username |-> username,
                                 password |-> IF password1 # <<>> THEN password1
                                              ELSE users[u_id].password,
                                 hospital |-> OrNone(hospital),
                                 is_admin |-> UserIsAdmin(form)]]
                /\ resp' = Response("usuarios_editar", a, req, "updated", u_id)
        /\ UNCHANGED <<records, nextId, hospitals, nextUserId, workers>>

\* usuarios_eliminar: current_user.id == u.id
EsPropioNever(a, u_id) == FALSE

EsPropio(a, u_id) == a = u_id

\* db.session.delete(u)
BorrarUsuario(us, u_id) == [u \in DOMAIN us \ {u_id} |-> us[u]]

usuarios_eliminar(a, u_id) ==
    LET req == [method |-> "POST", u_id |-> u_id]
        reply(st) == /\ resp' = Response("usuarios_eliminar", a, req, st, u_id)
                     /\ UNCHANGED users
    IN  /\ Idle
        /\ IF ~IsAuthenticated(a) THEN reply("login")
           ELSE IF ~admin_required(a) THEN reply("admin_only")
           ELSE IF u_id \notin DOMAIN users THEN reply("not_found")
           ELSE IF EsPropio(a, u_id) THEN reply("self_delete")
           ELSE /\ users' = BorrarUsuario(users, u_id)
                /\ resp' = Response("usuarios_eliminar", a, req, "deleted", u_id)
        /\ UNCHANGED <<records, nextId, hospitals, nextUserId, workers>>

-----------------------------------------------------------------------------
(* Listar, exportar, dashboard *)

NoDate == 0     \* None as the value of d_desde, d_hasta

\* parse_date(s) if s else None, of listar, exportar_csv and dashboard
parse_date(s) ==
    IF Truthy(s) /\ ParseDate(s).ok THEN ParseDate(s).val ELSE NoDate

\* the filters on fecha: if d_desde: fecha >= d_desde; if d_hasta: fecha <= d_hasta
InDatesExclusive(rec, d_desde, d_hasta) ==
    /\ d_desde # NoDate => rec.fecha > d_desde
    /\ d_hasta # NoDate => rec.fecha < d_hasta

InDates(rec, d_desde, d_hasta) ==
    /\ d_desde # NoDate => rec.fecha >= d_desde
    /\ d_hasta # NoDate => rec.fecha <= d_hasta

\* (request.args.get('hospital') or '').strip()
FHospital(args) == Strip(OrEmpty(args.hospital))

\* order_by(fecha, id), both ascending or both descending
BeforeAscending(r, q, dir) ==
    r.fecha < q.fecha \/ (r.fecha = q.fecha /\ r.id <= q.id)

Before(r, q, dir) ==
    IF dir = "asc"
    THEN r.fecha < q.fecha \/ (r.fecha = q.fecha /\ r.id <= q.id)
    ELSE r.fecha > q.fecha \/ (r.fecha = q.fecha /\ r.id >= q.id)

RECURSIVE OrderBy(_, _)
OrderBy(S, dir) ==
    IF S = {} THEN <<>>
    ELSE LET first == CHOOSE r \in S : \A q \in S : Before(r, q, dir)
         IN  <<first>> \o OrderBy(S \ {first}, dir)

\* order_by(fecha.asc()) alone: rows of one date come in any order
RECURSIVE OrderingsByFecha(_)
OrderingsByFecha(S) ==
    IF S = {} THEN {<<>>}
    ELSE UNION {{<<r>> \o t : t \in OrderingsByFecha(S \ {r})} :
                    r \in {r \in S : \A q \in S : r.fecha <= q.fecha}}

\* listar: the hospital filter by role
ListarScopeUnscoped(a, f_hospital) ==
    {records[i] : i \in {j \in DOMAIN records :
        f_hospital # <<>> => records[j].hospital = f_hospital}}

ListarScope(a, f_hospital) ==
    {records[i] : i \in {j \in DOMAIN records :
        IF ~IsAdmin(a) THEN records[j].hospital = users[a].hospital
        ELSE f_hospital # <<>> => records[j].hospital = f_hospital}}

listar(a, args) ==
    LET d_desde == parse_date(args.desde)
        d_hasta == parse_date(args.hasta)
        q == {r \in ListarScope(a, FHospital(args)) : InDates(r, d_desde, d_hasta)}
    IN  /\ Idle
        /\ resp' = IF ~IsAuthenticated(a)
                   THEN Response("listar", a, args, "login", [registros |-> <<>>])
                   ELSE Response("listar", a, args, "ok",
                                 [registros |-> OrderBy(q, "desc")])
        /\ UNCHANGED <<records, nextId, hospitals, users, nextUserId, workers>>

\* str.replace(old, new) for a one-character old
Replace(s, old, new) == [i \in DOMAIN s |-> IF s[i] = old THEN new ELSE s[i]]

\* EmergencyRecord.to_row
to_row(r) ==
    <<IsoFormat(r.fecha), r.hospital, r.atenciones, r.ingresos,
      r.alta_voluntario, r.traslados, r.motivo_traslado, r.hospital_referencia,
      r.defunciones, Strip(Replace(r.eventualidades, "\r", " "))>>

\* exportar_csv: the hospital filter by role
CsvScope(a, f_hospital) ==
    {records[i] : i \in {j \in DOMAIN records :
        IF ~IsAdmin(a) THEN records[j].hospital = users[a].hospital
        ELSE f_hospital # <<>> => records[j].hospital = f_hospital}}

exportar_csv(a, args) ==
    LET d_desde == parse_date(args.desde)
        d_hasta == parse_date(args.hasta)
        q == {r \in CsvScope(a, FHospital(args)) : InDates(r, d_desde, d_hasta)}
        registros == OrderBy(q, "desc")
    IN  /\ Idle
        /\ resp' = IF ~IsAuthenticated(a)
                   THEN Response("exportar_csv", a, args, "login",
                                 [registros |-> <<>>, rows |-> <<>>])
                   ELSE Response("exportar_csv", a, args, "ok",
                                 [registros |-> registros,
                                  rows |-> [i \in DOMAIN registros |->
                                              to_row(registros[i])]])
        /\ UNCHANGED <<records, nextId, hospitals, users, nextUserId, workers>>

\* exportar_excel: parse_date(s) returns None for an empty and for a bad string
excel_parse_date(s) ==
    IF OrEmpty(s) # <<>> /\ ParseDate(OrEmpty(s)).ok
    THEN ParseDate(OrEmpty(s)).val
    ELSE NoDate

\* exportar_excel: the hospital filter by role, of the first query
ExcelScope(a, f_hospital) ==
    {records[i] : i \in {j \in DOMAIN records :
        IF ~IsAdmin(a) THEN records[j].hospital = users[a].hospital
        ELSE f_hospital # <<>> => records[j].hospital = f_hospital}}

\* exportar_excel: the hospital filter by role, of the retry without dates
ExcelRetryScope(a, f_hospital) ==
    {records[i] : i \in {j \in DOMAIN records :
        IF ~IsAdmin(a) THEN records[j].hospital = users[a].hospital
        ELSE f_hospital # <<>> => records[j].hospital = f_hospital}}

\* exportar_excel: motivo_vacio, the filters the first query applied
MotivoVacio(a, f_hospital, d_desde, d_hasta) ==
    (IF ~IsAdmin(a)
     THEN <<<<"Rol usuario restringe a hospital", users[a].hospital>>>>
     ELSE IF f_hospital # <<>> THEN <<<<"Filtro hospital", f_hospital>>>>
     ELSE <<>>)
    \o (IF d_desde # NoDate THEN <<<<"Desde", IsoFormat(d_desde)>>>> ELSE <<>>)
    \o (IF d_hasta # NoDate THEN <<<<"Hasta", IsoFormat(d_hasta)>>>> ELSE <<>>)

\* exportar_excel: if len(registros) == 0 and (d_desde or d_hasta)
ReintentoSiempre(q, d_desde, d_hasta) == q = {}

ReintentoSinFechas(q, d_desde, d_hasta) ==
    q = {} /\ (d_desde # NoDate \/ d_hasta # NoDate)

\* exportar_excel: the notes of the sheet Resumen
NotaSinFechas == "Sin resultados con fechas; se exportó sin filtros de fecha."
NotaFiltros == "Filtros aplicados: "

ExcelNotes(reintento_sin_fechas, motivo_vacio) ==
    (IF reintento_sin_fechas
     THEN <<[nota |-> NotaSinFechas, motivos |-> <<>>]>> ELSE <<>>)
    \o (IF motivo_vacio # <<>>
        THEN <<[nota |-> NotaFiltros, motivos |-> motivo_vacio]>> ELSE <<>>)

exportar_excel(a, args) ==
    LET p_desde == excel_parse_date(args.desde)
        p_hasta == excel_parse_date(args.hasta)
        swap == p_desde # NoDate /\ p_hasta # NoDate /\ p_desde > p_hasta
        d_desde == IF swap THEN p_hasta ELSE p_desde
        d_hasta == IF swap THEN p_desde ELSE p_hasta
        f_hospital == FHospital(args)
        q == {r \in ExcelScope(a, f_hospital) : InDates(r, d_desde, d_hasta)}
        reintento_sin_fechas == ReintentoSinFechas(q, d_desde, d_hasta)
        registros == IF reintento_sin_fechas
                     THEN OrderBy(ExcelRetryScope(a, f_hospital), "asc")
                     ELSE OrderBy(q, "asc")
    IN  /\ Idle
        /\ resp' = IF ~IsAuthenticated(a)
                   THEN Response("exportar_excel", a, args, "login",
                                 [registros |-> <<>>, reintento_sin_fechas |-> FALSE,
                                  notes |-> <<>>])
                   ELSE Response("exportar_excel", a, args, "ok",
                                 [registros |-> registros,
                                  reintento_sin_fechas |-> reintento_sin_fechas,
                                  notes |-> ExcelNotes(reintento_sin_fechas,
                                              MotivoVacio(a, f_hospital,
                                                          d_desde, d_hasta))])
        /\ UNCHANGED <<records, nextId, hospitals, users, nextUserId, workers>>

\* dashboard: the hospital filter by role
DashboardScope(a, f_hospital) ==
    {records[i] : i \in {j \in DOMAIN records :
        IF ~IsAdmin(a) THEN records[j].hospital = users[a].hospital
        ELSE f_hospital # <<>> => records[j].hospital = f_hospital}}

\* sum(r.campo for r in registros)
RECURSIVE SumOf(_, _)
SumOf(registros, campo) ==
    IF registros = <<>> THEN 0
    ELSE Head(registros)[campo] + SumOf(Tail(registros), campo)

\* the order of str: the characters of a date key by code point
CodePoints == <<"-", "0", "1", "2", "3", "4", "5", "6", "7", "8", "9">>

Ord(c) == CHOOSE i \in DOMAIN CodePoints : CodePoints[i] = c

RECURSIVE StrLess(_, _)
StrLess(s, t) ==
    IF t = <<>> THEN FALSE
    ELSE IF s = <<>> THEN TRUE
    ELSE IF Head(s) # Head(t) THEN Ord(Head(s)) < Ord(Head(t))
    ELSE StrLess(Tail(s), Tail(t))

\* dates = sorted(series.keys())
RECURSIVE SortedReversed(_)
SortedReversed(K) ==
    IF K = {} THEN <<>>
    ELSE LET k == CHOOSE k \in K : \A j \in K \ {k} : StrLess(j, k)
         IN  <<k>> \o SortedReversed(K \ {k})

RECURSIVE Sorted(_)
Sorted(K) ==
    IF K = {} THEN <<>>
    ELSE LET k == CHOOSE k \in K : \A j \in K \ {k} : StrLess(k, j)
         IN  <<k>> \o Sorted(K \ {k})

\* series: a dict keyed by r.fecha.isoformat()
SeriesKeys(registros) ==
    {IsoFormat(registros[i].fecha) : i \in DOMAIN registros}

\* series[key][campo]: the counter summed over the records of that key
Series(registros, key, campo) ==
    SumOf(SelectSeq(registros, LAMBDA r : IsoFormat(r.fecha) = key), campo)

\* [series[d][campo] for d in dates]
Chart(registros, dates, campo) ==
    [i \in DOMAIN dates |-> Series(registros, dates[i], campo)]

\* totales: a dict keyed by hospital, its keys in the order of insertion
RECURSIVE TotalesKeys(_)
TotalesKeys(registros) ==
    IF registros = <<>> THEN <<>>
    ELSE LET init == TotalesKeys(SubSeq(registros, 1, Len(registros) - 1))
             h == registros[Len(registros)].hospital
         IN  IF \E i \in DOMAIN init : init[i] = h THEN init
             ELSE Append(init, h)

\* {"hospital": h, "atenciones": totales[h]} for h in totales
Totales(registros) ==
    LET keys == TotalesKeys(registros)
    IN  [i \in DOMAIN keys |->
            [hospital |-> keys[i],
             atenciones |-> SumOf(SelectSeq(registros,
                                    LAMBDA r : r.hospital = keys[i]),
                                  "atenciones")]]

\* sorted(..., key=atenciones, reverse=True): a stable sort, entries of
\* equal total stay in their order
RECURSIVE SortedByAtenciones(_)
SortedByAtenciones(seq) ==
    IF seq = <<>> THEN <<>>
    ELSE LET i == CHOOSE i \in DOMAIN seq :
                    /\ \A j \in DOMAIN seq : seq[j].atenciones <= seq[i].atenciones
                    /\ \A j \in 1..(i - 1) : seq[j].atenciones < seq[i].atenciones
         IN  <<seq[i]>> \o SortedByAtenciones(SubSeq(seq, 1, i - 1)
                                              \o SubSeq(seq, i + 1, Len(seq)))

RankingTop == 5

\* [:5]
TopAll(seq) == seq

Top(seq) == SubSeq(seq, 1, IF Len(seq) < RankingTop THEN Len(seq) ELSE RankingTop)

\* ranking: only for an admin without hospital filter
Ranking(a, f_hospital, registros) ==
    IF IsAdmin(a) /\ f_hospital = <<>>
    THEN Top(SortedByAtenciones(Totales(registros)))
    ELSE <<>>

\* what the template is rendered with; dates and the four charts are shown
\* before json.dumps
DashboardOut(a, f_hospital, registros) ==
    LET dates == Sorted(SeriesKeys(registros))
    IN  [registros |-> registros,
         kpi_atenciones |-> SumOf(registros, "atenciones"),
         kpi_ingresos |-> SumOf(registros, "ingresos"),
         kpi_traslados |-> SumOf(registros, "traslados"),
         kpi_defunciones |-> SumOf(registros, "defunciones"),
         dates |-> dates,
         chart_atenciones |-> Chart(registros, dates, "atenciones"),
         chart_ingresos |-> Chart(registros, dates, "ingresos"),
         chart_traslados |-> Chart(registros, dates, "traslados"),
         chart_defunciones |-> Chart(registros, dates, "defunciones"),
         ranking |-> Ranking(a, f_hospital, registros)]

dashboard(a, args) ==
    LET d_desde == parse_date(args.desde)
        d_hasta == parse_date(args.hasta)
        f_hospital == FHospital(args)
        q == {r \in DashboardScope(a, f_hospital) : InDates(r, d_desde, d_hasta)}
    IN  /\ Idle
        /\ IF ~IsAuthenticated(a)
           THEN resp' = Response("dashboard", a, args, "login", [registros |-> <<>>])
           ELSE \E registros \in OrderingsByFecha(q) :
                  resp' = Response("dashboard", a, args, "ok",
                                   DashboardOut(a, f_hospital, registros))
        /\ UNCHANGED <<records, nextId, hospitals, users, nextUserId, workers>>

-----------------------------------------------------------------------------
(* Requests of the model *)

Actors == {Anonymous} \cup DOMAIN users
Methods == {"GET", "POST"}
RecIds == 1..MaxRecId
HospIds == 1..MaxHospitals

\* the raw strings a date field carries: absent, not a date, a date
RawDates == {None, <<"x">>} \cup {IsoFormat(d) : d \in Dates}

\* the raw strings a hospital field carries
RawHospitals == {None, HospA, <<" ", "B">>}

\* the counters and texts of a record form: every kind of counter input
\* (absent, empty, not a number, negative, a number between spaces), and
\* a plain number everywhere
BodyMixed ==
    [atenciones |-> None, ingresos |-> <<>>, alta_voluntario |-> <<"a", "b", "c">>,
     traslados |-> <<"-", "5">>, defunciones |-> <<" ", "7", " ">>,
     motivo_traslado |-> None, hospital_referencia |-> <<>>,
     eventualidades |-> <<" ">>]

BodyPlain ==
    [atenciones |-> <<"7">>, ingresos |-> <<"7">>, alta_voluntario |-> <<"7">>,
     traslados |-> <<"7">>, defunciones |-> <<"7">>,
     motivo_traslado |-> <<"m">>, hospital_referencia |-> <<"B">>,
     eventualidades |-> <<" ", "e", "\r", "\n", "f", " ">>]

Bodies == {BodyMixed, BodyPlain}

RecordForm(fecha, hospital, body) ==
    [fecha |-> fecha, hospital |-> hospital] @@ body

RecordForms ==
    {RecordForm(f, h, b) : f \in RawDates, h \in RawHospitals, b \in Bodies}

\* a request that carries no form (GET), and the one request that stands
\* for all requests of a client that is not logged in
NoForm == RecordForm(None, None, BodyMixed)

HospitalForms ==
    {[nombre |-> n, activo |-> x] : n \in RawHospitals, x \in {None, <<"o", "n">>}}

NoHospitalForm == [nombre |-> None, activo |-> None]

\* POST carries a form; GET, and a request without a session, do not
FormsOf(a, method, forms, none) ==
    IF IsAuthenticated(a) /\ method = "POST" THEN forms ELSE {none}

\* datetime.today().date(), read only when the form carries no fecha
Todays(form) == IF Truthy(form["fecha"]) THEN {1} ELSE Dates

-----------------------------------------------------------------------------
(* The application *)

Init ==
    /\ records = <<>>
    /\ nextId = 1
    /\ hospitals = <<[nombre |-> HospA, activo |-> TRUE]>>
    /\ users = (1 :> [username |-> <<"a", "d", "m", "i", "n">>, password |-> <<"p">>,
                      hospital |-> HospA, is_admin |-> TRUE])
               @@ (2 :> [username |-> <<"u">>, password |-> <<"p">>,
                         hospital |-> HospA, is_admin |-> FALSE])
    /\ nextUserId = 3
    /\ workers = [w \in Workers |-> IdleWorker]
    /\ resp = NoResp

Next ==
    \/ Deliver
    \/ \E a \in Actors, m \in Methods :
         \E form \in FormsOf(a, m, RecordForms, NoForm) :
           \E today \in Todays(form) : nuevo(a, m, form, today)
    \/ \E a \in Actors, m \in Methods, rec_id \in RecIds :
         \E form \in FormsOf(a, m, RecordForms, NoForm) : editar(a, m, rec_id, form)
    \/ \E a \in Actors, rec_id \in RecIds : eliminar(a, rec_id)
    \/ \E a \in Actors, m \in Methods :
         \E form \in FormsOf(a, m, HospitalForms, NoHospitalForm) :
           hospitales_nuevo(a, m, form)
    \/ \E a \in Actors, m \in Methods, h_id \in HospIds :
         \E form \in FormsOf(a, m, HospitalForms, NoHospitalForm) :
           hospitales_editar(a, m, h_id, form)
    \/ \E a \in Actors, h_id \in HospIds : hospitales_eliminar(a, h_id)

Spec == Init /\ [][Next]_vars

\* the query string of listar, exportar_csv, exportar_excel and dashboard
QueryArgs ==
    {[hospital |-> h, desde |-> d, hasta |-> e] :
        h \in RawHospitals, d \in RawDates, e \in RawDates}

NoArgs == [hospital |-> None, desde |-> None, hasta |-> None]

ArgsOf(a) == IF IsAuthenticated(a) THEN QueryArgs ELSE {NoArgs}

\* The application as its readers see it: records and hospitals are entered
\* with one form body, and every query is asked of every store.
NextQuery ==
    \/ Deliver
    \/ \E form \in HospitalForms : hospitales_nuevo(1, "POST", form)
    \/ \E a \in DOMAIN users, f \in RawDates, h \in RawHospitals :
         nuevo(a, "POST", RecordForm(f, h, BodyPlain), 1)
    \/ \E a \in Actors : \E args \in ArgsOf(a) : listar(a, args)
    \/ \E a \in Actors : \E args \in ArgsOf(a) : exportar_csv(a, args)
    \/ \E a \in Actors : \E args \in ArgsOf(a) : exportar_excel(a, args)
    \/ \E a \in Actors : \E args \in ArgsOf(a) : dashboard(a, args)

SpecQuery == Init /\ [][NextQuery]_vars

\* the forms of the user management
UserIds == 1..MaxUserId

RawUsernames == {None, <<"u">>, <<" ", "v", " ">>}

RawPasswords == {<<None, None>>, <<<<"p">>, <<"p">>>>, <<<<"q">>, <<"p">>>>}

UserForms ==
    {[username |-> n, hospital |-> h, password1 |-> pw[1], password2 |-> pw[2],
      is_admin |-> x] :
        n \in RawUsernames, h \in {None, HospA, HospB}, pw \in RawPasswords,
        x \in {None, <<"o", "n">>}}

NoUserForm == [username |-> None, hospital |-> None, password1 |-> None,
               password2 |-> None, is_admin |-> None]

\* The application as its administrators see it: the user store, and the
\* hospital catalog the user form is validated against.
NextUsers ==
    \/ Deliver
    \/ \E a \in Actors, m \in Methods :
         \E form \in FormsOf(a, m, UserForms, NoUserForm) :
           usuarios_nuevo(a, m, form)
    \/ \E a \in Actors, m \in Methods, u_id \in UserIds :
         \E form \in FormsOf(a, m, UserForms, NoUserForm) :
           usuarios_editar(a, m, u_id, form)
    \/ \E a \in Actors, u_id \in UserIds : usuarios_eliminar(a, u_id)
    \/ \E a \in Actors, h_id \in HospIds : hospitales_eliminar(a, h_id)

SpecUsers == Init /\ [][NextUsers]_vars

\* The dashboard as a function of the store: stores of up to MaxDashRecs
\* records, record i of hospital i (the second one possibly of hospital A
\* instead, on another day than the first), on alternating days, with drawn
\* atenciones.
Letters == <<"A", "B", "C", "D", "E", "F", "G", "H">>

DashHospital(i) == <<Letters[i]>>

AtencionesDrawn == {5, 10, 30}

DashRecord(i, hospital, atenciones) ==
    [id |-> i, fecha |-> ((i - 1) % MaxDate) + 1, hospital |-> hospital,
     atenciones |-> atenciones, ingresos |-> i, alta_voluntario |-> 0,
     traslados |-> 1, defunciones |-> i % 2,
     motivo_traslado |-> <<>>, hospital_referencia |-> <<>>,
     eventualidades |-> <<>>]

\* the hospitals record i may belong to
DashHospitals(i) ==
    IF i = 2 THEN {DashHospital(i), HospA} ELSE {DashHospital(i)}

RECURSIVE DashStores(_)
DashStores(n) ==
    IF n = 0 THEN {<<>>}
    ELSE {Append(st, DashRecord(n, h, at)) :
            st \in DashStores(n - 1), h \in DashHospitals(n),
            at \in AtencionesDrawn}

InitDashboard ==
    /\ records \in UNION {DashStores(n) : n \in 0..MaxDashRecs}
    /\ nextId = Len(records) + 1
    /\ hospitals = [i \in 1..MaxDashRecs |->
                        [nombre |-> DashHospital(i), activo |-> TRUE]]
    /\ users = (1 :> [username |-> <<"a", "d", "m", "i", "n">>, password |-> <<"p">>,
                      hospital |-> HospA, is_admin |-> TRUE])
               @@ (2 :> [username |-> <<"u">>, password |-> <<"p">>,
                         hospital |-> HospA, is_admin |-> FALSE])
    /\ nextUserId = 3
    /\ workers = [w \in Workers |-> IdleWorker]
    /\ resp = NoResp

DashArgs ==
    {[hospital |-> h, desde |-> d, hasta |-> None] :
        h \in {None, HospA}, d \in {None, IsoFormat(2)}}

NextDashboard ==
    \/ Deliver
    \/ \E a \in Actors :
         \E args \in (IF IsAuthenticated(a) THEN DashArgs ELSE {NoArgs}) :
           dashboard(a, args)

SpecDashboard == InitDashboard /\ [][NextDashboard]_vars

\* The application as two workers serve it: every worker takes requests to
\* create a record and runs them one database round trip at a time.
RaceForms == {RecordForm(f, h, BodyPlain) : f \in RawDates, h \in RawHospitals}

NextRace ==
    \/ \E w \in Workers, a \in Actors, m \in Methods :
         \E form \in FormsOf(a, m, RaceForms, NoForm) :
           \E today \in Todays(form) : nuevo_check(w, a, m, form, today)
    \/ \E w \in Workers : nuevo_insert(w)
    \/ \E w \in Workers : nuevo_return(w)

SpecRace == Init /\ [][NextRace]_vars

-----------------------------------------------------------------------------
(* Properties of the record store *)

\* a step in which a request to `op` is handled
Handled(op) == Idle /\ resp'.op = op

\* the record a record request ends on
Target == records[resp.out]

\* C1: for every (date, hospital) pair there is at most one EmergencyRecord,
\* after any sequence of create, update and delete requests handled one
\* after another by admin and non-admin actors.
C1_UniqueDateHospital ==
    \A i, j \in DOMAIN records :
        (records[i].fecha = records[j].fecha
            /\ records[i].hospital = records[j].hospital) => i = j

\* an update was refused because another record holds the pair
C1_Witness ==
    /\ resp.op = "editar"
    /\ resp.status = "duplicate"
    /\ ~IsAdmin(resp.actor)
    /\ Cardinality(DOMAIN records) = 2

\* the date and the hospital a create request resolves to
ResolvedFecha(req) ==
    IF Truthy(req.form["fecha"]) THEN ParseDate(req.form["fecha"])
    ELSE [ok |-> TRUE, val |-> req.today]

ResolvedHospital(a, req) ==
    IF users[a].is_admin THEN Strip(OrEmpty(req.form["hospital"]))
    ELSE users[a].hospital

Resolves(a, req) ==
    /\ ResolvedFecha(req).ok
    /\ users[a].is_admin =>
         \E h \in 1..Len(hospitals) :
            hospitals[h].activo /\ hospitals[h].nombre = ResolvedHospital(a, req)

Occupied(a, req) ==
    \E i \in DOMAIN records :
        /\ records[i].fecha = ResolvedFecha(req).val
        /\ records[i].hospital = ResolvedHospital(a, req)

\* C2: a create request whose resolved (date, hospital) already has a record
\* is answered DuplicateRecord, naming the existing record, and the record
\* table is left as it was, whatever counters and notes the request carries.
C2_DuplicateCreateRejected ==
    [][(/\ Handled("nuevo")
        /\ resp'.actor \in DOMAIN users
        /\ resp'.req.method = "POST"
        /\ Resolves(resp'.actor, resp'.req)
        /\ Occupied(resp'.actor, resp'.req))
       => (/\ resp'.status = "duplicate"
           /\ resp'.out \in DOMAIN records
           /\ records[resp'.out].fecha = ResolvedFecha(resp'.req).val
           /\ records[resp'.out].hospital = ResolvedHospital(resp'.actor, resp'.req)
           /\ records' = records
           /\ nextId' = nextId)]_vars

\* a rejected create whose counters differ from the stored ones
C2_Witness ==
    /\ resp.op = "nuevo"
    /\ resp.status = "duplicate"
    /\ resp.req.form["atenciones"] = <<"7">>
    /\ Target.atenciones = 0

\* a counter input that is absent, empty or not an integer
Unparseable(val) == val = None \/ val = <<>> \/ ~PyInt(val).ok

\* C4: in a successful update every counter whose input is absent, empty or
\* not parseable as an integer keeps the value stored before the update.
C4_UnparseableKeepsValue ==
    [][(Handled("editar") /\ resp'.status = "updated")
       => \A f \in CounterFields :
            Unparseable(resp'.req.form[f])
              => records'[resp'.out][f] = records[resp'.out][f]]_vars

\* an update with absent, empty and non-numeric inputs over non-zero counters
C4_Witness ==
    /\ resp.op = "editar"
    /\ resp.status = "updated"
    /\ resp.req.form["atenciones"] = None /\ Target.atenciones = 7
    /\ resp.req.form["ingresos"] = <<>> /\ Target.ingresos = 7
    /\ resp.req.form["alta_voluntario"] = <<"a", "b", "c">>
    /\ Target.alta_voluntario = 7

\* a counter input that is an integer below zero
Negative(val) == val # None /\ PyInt(val).ok /\ PyInt(val).val < 0

\* C5 as claimed: a negative integer string for a counter retains the value
\* stored before the update.
C5_NegativeKeepsValue ==
    [][(Handled("editar") /\ resp'.status = "updated")
       => \A f \in CounterFields :
            Negative(resp'.req.form[f])
              => records'[resp'.out][f] = records[resp'.out][f]]_vars

\* C5 as amended: a negative integer string for a counter stores 0, whatever
\* value was stored before; only absent, empty and non-integer inputs retain.
C5_NegativeStoresZero ==
    [][(Handled("editar") /\ resp'.status = "updated")
       => \A f \in CounterFields :
            Negative(resp'.req.form[f]) => records'[resp'.out][f] = 0]_vars

\* "-5" submitted for a counter of a record whose counters were 7
C5_Witness ==
    /\ resp.op = "editar"
    /\ resp.status = "updated"
    /\ resp.req.form["traslados"] = <<"-", "5">>
    /\ Target.traslados = 0
    /\ Target.atenciones = 7

\* C6: in every reachable state all five counters of every stored record
\* are integers greater than or equal to 0.
C6_CountersNonNegative ==
    \A i \in DOMAIN records : \A f \in CounterFields : records[i][f] \in Nat

\* records written from negative input, by a create and by an update
C6_Witness ==
    /\ resp.op = "editar"
    /\ resp.status = "updated"
    /\ Negative(resp.req.form["traslados"])
    /\ \E i \in DOMAIN records : i # resp.out /\ records[i].traslados = 0

\* C7: deactivating a hospital (hospitales_eliminar, or an edit with the
\* active flag off) removes it from the active hospitals offered for
\* selection and leaves every EmergencyRecord row as it was.
C7_DeactivationKeepsRecords ==
    [][(\/ Handled("hospitales_eliminar") /\ resp'.status = "deactivated"
        \/ /\ Handled("hospitales_editar")
           /\ resp'.status = "updated"
           /\ resp'.req.form["activo"] # <<"o", "n">>)
       => (/\ resp'.out \notin inject_choices'
           /\ \A h \in inject_choices' :
                hospitals'[h].nombre # hospitals'[resp'.out].nombre
           /\ records' = records)]_vars

\* a hospital with records is deactivated
C7_Witness ==
    /\ resp.op = "hospitales_eliminar"
    /\ resp.status = "deactivated"
    /\ \E i \in DOMAIN records : records[i].hospital = hospitals[resp.out].nombre

\* C8: a record create or update succeeds only when its hospital is, at
\* that moment, the name of an active hospital, for every actor.
C8_OnlyActiveHospitals ==
    [][(\/ Handled("nuevo") /\ resp'.status = "saved"
        \/ Handled("editar") /\ resp'.status = "updated")
       => \E h \in 1..Len(hospitals) :
            hospitals[h].activo
              /\ hospitals[h].nombre = records'[resp'.out].hospital]_vars

\* C9: an update requested by a non-admin whose hospital differs from the
\* record's stored hospital is answered Forbidden and the record table is
\* left as it was, whatever the request carries.
C9_ForeignUpdateForbidden ==
    [][(/\ Handled("editar")
        /\ resp'.actor \in DOMAIN users
        /\ ~users[resp'.actor].is_admin
        /\ resp'.req.rec_id \in DOMAIN records
        /\ records[resp'.req.rec_id].hospital # users[resp'.actor].hospital)
       => (resp'.status = "forbidden" /\ records' = records)]_vars

\* a form posted by a non-admin for a record of another hospital
C9_Witness ==
    /\ resp.op = "editar"
    /\ resp.status = "forbidden"
    /\ resp.req.method = "POST"
    /\ resp.req.form["fecha"] # None
    /\ resp.req.form["atenciones"] = <<"7">>

\* C10: a delete request removes a record only when the actor is an admin;
\* from any other actor it fails and the record table is left as it was;
\* an admin's delete removes the addressed record and no other.
C10_DeleteAdminOnly ==
    [][Handled("eliminar")
       => IF resp'.actor \in DOMAIN users /\ users[resp'.actor].is_admin
          THEN IF resp'.req.rec_id \in DOMAIN records
               THEN /\ resp'.status = "deleted"
                    /\ DOMAIN records' = DOMAIN records \ {resp'.req.rec_id}
                    /\ \A i \in DOMAIN records' : records'[i] = records[i]
               ELSE records' = records
          ELSE /\ resp'.status \in {"login", "admin_only"}
               /\ records' = records]_vars

\* an admin deleted one of two records
C10_Witness ==
    /\ resp.op = "eliminar"
    /\ resp.status = "deleted"
    /\ Cardinality(DOMAIN records) = 1

-----------------------------------------------------------------------------
(* Properties of the hospital catalog *)

UniqueNames ==
    \A g, h \in 1..Len(hospitals) :
        hospitals[g].nombre = hospitals[h].nombre => g = h

\* an admin posts a hospital form
AdminPosts(op) ==
    /\ Handled(op)
    /\ resp'.actor \in DOMAIN users
    /\ users[resp'.actor].is_admin
    /\ resp'.req.method = "POST"

FormNombre(req) == Strip(OrEmpty(req.form["nombre"]))

\* C11: no two hospital rows, active or not, have the same name; a create
\* with a name some hospital owns and a rename to a name another hospital
\* owns are answered DuplicateName and leave the catalog as it was.
C11_UniqueHospitalNames ==
    /\ []UniqueNames
    /\ [][/\ (/\ AdminPosts("hospitales_nuevo")
              /\ \E h \in 1..Len(hospitals) :
                   hospitals[h].nombre = FormNombre(resp'.req))
             => (resp'.status = "duplicate_name" /\ hospitals' = hospitals)
          /\ (/\ AdminPosts("hospitales_editar")
              /\ resp'.req.h_id \in 1..Len(hospitals)
              /\ \E h \in 1..Len(hospitals) :
                   /\ h # resp'.req.h_id
                   /\ hospitals[h].nombre = FormNombre(resp'.req))
             => (resp'.status = "duplicate_name" /\ hospitals' = hospitals)]_vars

\* a rename to the name of another hospital, which is inactive, was refused
C11_Witness ==
    /\ resp.op = "hospitales_editar"
    /\ resp.status = "duplicate_name"
    /\ \E h \in 1..Len(hospitals) :
         /\ h # resp.out
         /\ ~hospitals[h].activo
         /\ hospitals[h].nombre = FormNombre(resp.req)

On == <<"o", "n">>

\* C12: no hospital row is ever removed: the ids only grow; the delete
\* operation only sets active to false on the addressed hospital, keeping
\* its id and name; an inactive hospital is made active again by an edit.
C12_HospitalsNeverRemoved ==
    [][/\ Len(hospitals') >= Len(hospitals)
       /\ Handled("hospitales_eliminar")
            => (/\ Len(hospitals') = Len(hospitals)
                /\ \A h \in 1..Len(hospitals) :
                     /\ hospitals'[h].nombre = hospitals[h].nombre
                     /\ hospitals'[h].activo =
                          IF h = resp'.req.h_id /\ resp'.status = "deactivated"
                          THEN FALSE ELSE hospitals[h].activo)
       /\ (/\ AdminPosts("hospitales_editar")
           /\ resp'.req.h_id \in 1..Len(hospitals)
           /\ ~hospitals[resp'.req.h_id].activo
           /\ FormNombre(resp'.req) = hospitals[resp'.req.h_id].nombre
           /\ resp'.req.form["activo"] = On)
            => (/\ resp'.status = "updated"
                /\ hospitals'[resp'.req.h_id] =
                     [nombre |-> hospitals[resp'.req.h_id].nombre,
                      activo |-> TRUE])]_vars

\* a deactivated hospital, still in the catalog under its id and name,
\* that the edit of an admin makes active again
C12_Witness ==
    /\ Idle
    /\ Len(hospitals) = 2
    /\ ~hospitals[2].activo
    /\ hospitals[2].nombre = HospB
    /\ ENABLED (/\ hospitales_editar(1, "POST", 2, [nombre |-> HospB, activo |-> On])
                /\ hospitals'[2].activo)

-----------------------------------------------------------------------------
(* Properties of the user store *)

\* C13: when an admin asks to delete an existing user, a request that
\* targets the admin's own account is refused and leaves the user table
\* unchanged; a request that targets any other user removes exactly that row.
C13_SelfDeleteRefused ==
    [][(/\ Handled("usuarios_eliminar")
        /\ resp'.actor \in DOMAIN users
        /\ users[resp'.actor].is_admin
        /\ resp'.req.u_id \in DOMAIN users)
       => IF resp'.req.u_id = resp'.actor
          THEN resp'.status = "self_delete" /\ users' = users
          ELSE /\ resp'.status = "deleted"
               /\ DOMAIN users' = DOMAIN users \ {resp'.req.u_id}
               /\ \A u \in DOMAIN users' : users'[u] = users[u]]_vars

\* the admin, having deleted user 2, is refused the deletion of its own
\* account and is still in the table
C13_Witness ==
    /\ resp.op = "usuarios_eliminar"
    /\ resp.status = "self_delete"
    /\ resp.req.u_id = resp.actor
    /\ resp.actor \in DOMAIN users
    /\ 2 \notin DOMAIN users

-----------------------------------------------------------------------------
(* Properties of the queries *)

QueryOps == {"listar", "exportar_csv", "exportar_excel", "dashboard"}

Rows == resp.out.registros

\* C3: for a non-admin actor the listing, the CSV export, the spreadsheet
\* export (its retry without dates included) and the dashboard return only
\* records of the actor's hospital, whatever hospital filter and date bounds
\* the request carries.
C3_NonAdminSeesOwnHospital ==
    (resp.op \in QueryOps /\ resp.actor \in DOMAIN users
        /\ ~users[resp.actor].is_admin)
    => \A i \in DOMAIN Rows : Rows[i].hospital = users[resp.actor].hospital

\* a non-admin asks the spreadsheet export for another hospital's records
\* with dates that match nothing, and the retry answers with their own
C3_Witness ==
    /\ resp.op = "exportar_excel"
    /\ resp.actor \in DOMAIN users
    /\ ~users[resp.actor].is_admin
    /\ FHospital(resp.req) = HospB
    /\ resp.out.reintento_sin_fechas
    /\ Len(Rows) = 1
    /\ \E i \in DOMAIN records : records[i].hospital = HospB


\* the records a query of actor a with hospital filter h may return
InScope(a, h) ==
    {records[k] : k \in {j \in DOMAIN records :
        IF users[a].is_admin
        THEN Strip(OrEmpty(h)) # <<>> => records[j].hospital = Strip(OrEmpty(h))
        ELSE records[j].hospital = users[a].hospital}}

\* the raw string s names the day d
Names(s, d) == s # None /\ Strip(s) = IsoFormat(d)

\* C14: the listing of a logged-in actor succeeds and holds, once each,
\* exactly the records in scope whose date d satisfies from <= d when the
\* from bound names a day and d <= to when the to bound names a day; a bound
\* that is absent or not a date restricts nothing.
C14_InclusiveDateBounds ==
    (resp.op = "listar" /\ resp.actor \in DOMAIN users)
    => /\ resp.status = "ok"
       /\ \A i, j \in DOMAIN Rows : i # j => Rows[i] # Rows[j]
       /\ {Rows[i] : i \in DOMAIN Rows}
          = {r \in InScope(resp.actor, resp.req.hospital) :
                \A d \in Dates :
                    /\ Names(resp.req.desde, d) => d <= r.fecha
                    /\ Names(resp.req.hasta, d) => r.fecha <= d}

\* records of day 1 and day 2 listed from day 2 to day 2: the record of
\* day 2 alone
C14_Witness ==
    /\ resp.op = "listar"
    /\ resp.actor \in DOMAIN users
    /\ resp.req.desde = IsoFormat(2)
    /\ resp.req.hasta = IsoFormat(2)
    /\ \E r, q \in InScope(resp.actor, resp.req.hospital) :
          r.fecha = 1 /\ q.fecha = 2
    /\ Len(Rows) = 1
    /\ Rows[1].fecha = 2

\* the records in scope that the date bounds of the request admit, the
\* bounds taken as they were sent
Filtered(a, req) ==
    {r \in InScope(a, req.hospital) :
        \A d \in Dates : /\ Names(req.desde, d) => d <= r.fecha
                         /\ Names(req.hasta, d) => r.fecha <= d}

\* both bounds name a day and from is later than to
Inverted(req) ==
    \E d, e \in Dates : Names(req.desde, d) /\ Names(req.hasta, e) /\ d > e

\* the same, an inverted pair of bounds put in order first
FilteredInOrder(a, req) ==
    IF Inverted(req)
    THEN {r \in InScope(a, req.hospital) :
            \A d, e \in Dates : (Names(req.desde, d) /\ Names(req.hasta, e))
                                => (e <= r.fecha /\ r.fecha <= d)}
    ELSE Filtered(a, req)

BoundParsed(req) ==
    \E d \in Dates : Names(req.desde, d) \/ Names(req.hasta, d)

\* the notes of the summary sheet say that the date filter was dropped
Flagged ==
    \E i \in DOMAIN resp.out.notes : resp.out.notes[i].nota = NotaSinFechas

Exported == {Rows[i] : i \in DOMAIN Rows}

\* C15 as stated: the spreadsheet export falls back exactly when a date
\* bound was parsed and the records in scope between from and to are none.
\* An inverted pair of bounds admits no record and yet is not a fallback.
C15_FallbackOnEmptyDateFilter ==
    (resp.op = "exportar_excel" /\ resp.actor \in DOMAIN users)
    => IF BoundParsed(resp.req) /\ Filtered(resp.actor, resp.req) = {}
       THEN Exported = InScope(resp.actor, resp.req.hospital) /\ Flagged
       ELSE Exported = Filtered(resp.actor, resp.req) /\ ~Flagged

\* C15: the spreadsheet export first puts an inverted pair of parsed bounds
\* in order; it falls back exactly when a date bound was parsed and no record
\* in scope lies between the ordered bounds: it then exports every record in
\* scope and the summary notes flag that the date filter was dropped; in
\* every other case it exports the date-filtered records and flags nothing.
C15_FallbackOnEmptyOrderedRange ==
    (resp.op = "exportar_excel" /\ resp.actor \in DOMAIN users)
    => IF BoundParsed(resp.req) /\ FilteredInOrder(resp.actor, resp.req) = {}
       THEN Exported = InScope(resp.actor, resp.req.hospital) /\ Flagged
       ELSE Exported = FilteredInOrder(resp.actor, resp.req) /\ ~Flagged

\* the only record in scope is of day 1 and the export is asked for day 2
\* onwards: the record is exported and the notes flag the dropped filter
C15_Witness ==
    /\ resp.op = "exportar_excel"
    /\ resp.actor \in DOMAIN users
    /\ resp.req.desde = IsoFormat(2)
    /\ resp.req.hasta = None
    /\ Len(Rows) = 1
    /\ Rows[1].fecha = 1
    /\ Flagged

-----------------------------------------------------------------------------
(* Properties of the dashboard *)

\* the sum of a counter over the rows of the response at the indexes I
RECURSIVE SumAt(_, _)
SumAt(I, campo) ==
    IF I = {} THEN 0
    ELSE LET i == CHOOSE i \in I : TRUE
         IN  Rows[i][campo] + SumAt(I \ {i}, campo)

DashboardOk == resp.op = "dashboard" /\ resp.status = "ok"

\* C16: the hospital ranking of the dashboard is empty unless the actor is
\* an admin and sends no hospital filter; it then has one entry for each of
\* at most 5 distinct hospitals of the filtered records, the total of an
\* entry is the sum of atenciones over all filtered records of its hospital,
\* totals do not increase along the ranking, and no hospital left out has a
\* larger total than one that is in.
C16_RankingTopFive ==
    DashboardOk =>
      LET rk == resp.out.ranking
          hs == {Rows[i].hospital : i \in DOMAIN Rows}
          Total(h) == SumAt({i \in DOMAIN Rows : Rows[i].hospital = h}, "atenciones")
      IN  IF users[resp.actor].is_admin /\ Strip(OrEmpty(resp.req.hospital)) = <<>>
          THEN /\ Len(rk) = IF Cardinality(hs) < 5 THEN Cardinality(hs) ELSE 5
               /\ \A i \in DOMAIN rk :
                     /\ rk[i].hospital \in hs
                     /\ rk[i].atenciones = Total(rk[i].hospital)
               /\ \A i, j \in DOMAIN rk :
                     i < j => /\ rk[i].hospital # rk[j].hospital
                              /\ rk[i].atenciones >= rk[j].atenciones
               /\ \A h \in hs \ {rk[i].hospital : i \in DOMAIN rk} :
                     \A i \in DOMAIN rk : Total(h) <= rk[i].atenciones
          ELSE rk = <<>>

\* records A:10, C:30, A:5 rank as C (30), A (15)
C16_Witness ==
    /\ DashboardOk
    /\ Len(Rows) = 3
    /\ \E i, j, k \in DOMAIN Rows :
          /\ Rows[i].hospital = HospA /\ Rows[i].atenciones = 10
          /\ Rows[j].hospital = DashHospital(3) /\ Rows[j].atenciones = 30
          /\ Rows[k].hospital = HospA /\ Rows[k].atenciones = 5
    /\ resp.out.ranking = <<[hospital |-> DashHospital(3), atenciones |-> 30],
                            [hospital |-> HospA, atenciones |-> 15]>>

\* the counter arrays of the time series and the KPI of each counter
ChartOf(campo) ==
    CASE campo = "atenciones" -> resp.out.chart_atenciones
      [] campo = "ingresos" -> resp.out.chart_ingresos
      [] campo = "traslados" -> resp.out.chart_traslados
      [] campo = "defunciones" -> resp.out.chart_defunciones

KpiOf(campo) ==
    CASE campo = "atenciones" -> resp.out.kpi_atenciones
      [] campo = "ingresos" -> resp.out.kpi_ingresos
      [] campo = "traslados" -> resp.out.kpi_traslados
      [] campo = "defunciones" -> resp.out.kpi_defunciones

RECURSIVE SumSeq(_)
SumSeq(seq) == IF seq = <<>> THEN 0 ELSE Head(seq) + SumSeq(Tail(seq))

\* C17: the time series of the dashboard has one label for each distinct
\* date of the filtered records, the labels ascend strictly by date, and
\* the value of each of the four arrays at a label is the sum of that counter
\* over the filtered records of that date, so that each array sums to the
\* KPI of its counter, the sum of the counter over all filtered records.
C17_SeriesByAscendingDate ==
    DashboardOk =>
      LET ds == resp.out.dates
      IN  /\ Len(ds) = Cardinality({Rows[k].fecha : k \in DOMAIN Rows})
          /\ {ds[i] : i \in DOMAIN ds} = {IsoFormat(Rows[k].fecha) : k \in DOMAIN Rows}
          /\ \A i, j \in DOMAIN ds :
                i < j => \E d, e \in Dates :
                            ds[i] = IsoFormat(d) /\ ds[j] = IsoFormat(e) /\ d < e
          /\ \A campo \in {"atenciones", "ingresos", "traslados", "defunciones"} :
                /\ Len(ChartOf(campo)) = Len(ds)
                /\ \A i \in DOMAIN ds :
                      ChartOf(campo)[i]
                      = SumAt({k \in DOMAIN Rows : IsoFormat(Rows[k].fecha) = ds[i]},
                              campo)
                /\ KpiOf(campo) = SumAt(DOMAIN Rows, campo)
                /\ SumSeq(ChartOf(campo)) = KpiOf(campo)

\* four records on two days: two labels, each value the sum of two records
C17_Witness ==
    /\ DashboardOk
    /\ Len(Rows) = 4
    /\ resp.out.dates = <<IsoFormat(1), IsoFormat(2)>>
    /\ resp.out.chart_atenciones = <<15, 40>>
    /\ resp.out.chart_ingresos = <<4, 6>>
    /\ resp.out.kpi_atenciones = 55

-----------------------------------------------------------------------------
(* Properties of the order of rows *)

\* the day a row of the CSV export carries in its first column
CsvDay(row) == CHOOSE d \in Dates : row[1] = IsoFormat(d)

Ascending(rows) ==
    \A i, j \in DOMAIN rows :
        i < j => \/ rows[i].fecha < rows[j].fecha
                 \/ rows[i].fecha = rows[j].fecha /\ rows[i].id < rows[j].id

Descending(rows) ==
    \A i, j \in DOMAIN rows :
        i < j => \/ rows[i].fecha > rows[j].fecha
                 \/ rows[i].fecha = rows[j].fecha /\ rows[i].id > rows[j].id

\* C18 as stated: the rows of the CSV export and of the spreadsheet export
\* are in non-decreasing date order, and the listing is in descending date
\* and then descending id order.  The CSV export is not.
C18_ExportsAscending ==
    /\ (resp.op = "exportar_csv" /\ resp.status = "ok")
       => \A i, j \in DOMAIN resp.out.rows :
             i < j => CsvDay(resp.out.rows[i]) <= CsvDay(resp.out.rows[j])
    /\ (resp.op = "exportar_excel" /\ resp.status = "ok")
       => \A i, j \in DOMAIN Rows : i < j => Rows[i].fecha <= Rows[j].fecha
    /\ (resp.op = "listar" /\ resp.status = "ok") => Descending(Rows)

\* C18: the spreadsheet export emits its rows in ascending date and then
\* ascending id order; the CSV export, like the listing, emits them in
\* descending date and then descending id order.
C18_CsvDescendingExcelAscending ==
    /\ (resp.op = "exportar_csv" /\ resp.status = "ok")
       => /\ Descending(Rows)
          /\ \A i, j \in DOMAIN resp.out.rows :
                i < j => CsvDay(resp.out.rows[i]) >= CsvDay(resp.out.rows[j])
    /\ (resp.op = "exportar_excel" /\ resp.status = "ok") => Ascending(Rows)
    /\ (resp.op = "listar" /\ resp.status = "ok") => Descending(Rows)

\* a CSV export of two records: the row of day 2 comes before that of day 1
C18_Witness ==
    /\ resp.op = "exportar_csv"
    /\ resp.status = "ok"
    /\ Len(resp.out.rows) = 2
    /\ resp.out.rows[1][1] = IsoFormat(2)
    /\ resp.out.rows[2][1] = IsoFormat(1)

-----------------------------------------------------------------------------
(* Properties of the CSV rows *)

\* C19: a row of the CSV export has the ten columns date, hospital,
\* atenciones, ingresos, alta_voluntario, traslados, motivo_traslado,
\* hospital_referencia, defunciones, eventualidades of its record, and its
\* three text columns hold no carriage return and no line feed.
C19_CsvTextWithoutNewlines ==
    (resp.op = "exportar_csv" /\ resp.status = "ok")
    => \A i \in DOMAIN resp.out.rows :
          LET row == resp.out.rows[i]
              r == Rows[i]
          IN  /\ Len(row) = 10
              /\ row[1] = IsoFormat(r.fecha)
              /\ row[2] = r.hospital
              /\ row[3] = r.atenciones
              /\ row[4] = r.ingresos
              /\ row[5] = r.alta_voluntario
              /\ row[6] = r.traslados
              /\ row[9] = r.defunciones
              /\ \A c \in {7, 8, 10} :
                    \A k \in DOMAIN row[c] : row[c][k] \notin {"\r", "\n"}

-----------------------------------------------------------------------------
(* Properties of concurrent creation *)

\* worker w sends its INSERT in this step
Inserts(w) == workers[w].pc = "insert" /\ workers'[w].pc = "done"

\* C20: between the existence check of a create request and its insert,
\* another worker can insert a record of the same (fecha, hospital); the
\* insert still commits, whatever rows the table holds by then, because
\* nothing but the check looks at the pair. Two records of one (fecha,
\* hospital) pair are then in the table.
C20_InsertIgnoresConcurrentRows ==
    [][\A w \in Workers :
          Inserts(w)
          => /\ workers'[w].status = "saved"
             /\ DOMAIN records' = DOMAIN records \cup {nextId}
             /\ records'[nextId].fecha = workers[w].fecha
             /\ records'[nextId].hospital = workers[w].hospital
             /\ \A i \in DOMAIN records : records'[i] = records[i]]_vars

\* both workers checked before either inserted, and both inserts committed:
\* two records of the same date and hospital
C20_Witness ==
    /\ \A w \in Workers : workers[w].pc = "done" /\ workers[w].status = "saved"
    /\ \E i, j \in DOMAIN records :
          /\ i # j
          /\ records[i].fecha = records[j].fecha
          /\ records[i].hospital = records[j].hospital

-----------------------------------------------------------------------------
(* Properties of the writes of a non-admin *)

\* a create, update or delete request of a non-admin is handled in this step
NonAdminWrites ==
    /\ \E op \in {"nuevo", "editar", "eliminar"} : Handled(op)
    /\ resp'.actor \in DOMAIN users
    /\ ~users[resp'.actor].is_admin

\* C21: a create, update or delete request of a non-admin leaves every
\* record of another hospital than the actor's in the table and unchanged,
\* and every record the request creates or modifies has afterwards the
\* actor's hospital, whatever hospital the form carries.
C21_NonAdminWritesOwnHospital ==
    [][NonAdminWrites
       => /\ \A i \in DOMAIN records :
                records[i].hospital # users[resp'.actor].hospital
                => (i \in DOMAIN records' /\ records'[i] = records[i])
          /\ \A i \in DOMAIN records' :
                (i \notin DOMAIN records \/ records'[i] # records[i])
                => records'[i].hospital = users[resp'.actor].hospital]_vars

\* a non-admin of hospital A has updated a record with a form that names
\* hospital B: the record is of hospital A, and the record of hospital B is
\* still in the table
C21_Witness ==
    /\ resp.op = "editar"
    /\ resp.status = "updated"
    /\ resp.actor \in DOMAIN users
    /\ ~users[resp.actor].is_admin
    /\ Strip(OrEmpty(resp.req.form["hospital"])) = HospB
    /\ users[resp.actor].hospital = HospA
    /\ records[resp.out].hospital = HospA
    /\ \E i \in DOMAIN records : records[i].hospital = HospB

=============================================================================
